---- MODULE Spec2Model ----
(***************************************************************************)
(* Stock Breakout Strategy Analyzer (src/app.py): the Streamlit form of    *)
(* main() and the run of analyze_breakouts().                              *)
(*                                                                         *)
(* Units.  Dates are day numbers (day 0 is a Monday, d % 7 in {5, 6} is a  *)
(* weekend).  Closes are in mills (1/1000 of a currency unit).  A volume   *)
(* threshold is in hundredths (200 is 2.0), a price threshold in 1/10000   *)
(* (200 is 0.02).  Every float the code computes is an exact rational      *)
(* [k |-> "num", n, d] with d > 0, or NaN, or Inf; a string formatted with *)
(* .1% is the integer number of tenths of a percent it shows.              *)
(***************************************************************************)
EXTENDS Integers, Sequences, FiniteSets, TLC

VARIABLES
    market,            \* the provider's whole history of the ticker
    request,           \* what the user typed into the form
    start_date, end_date, volume_threshold, price_threshold, holding_period,
    pc,                \* position of the run
    fetched,           \* yf.download has been called
    stock,             \* the frame yf.download returned
    breakouts,         \* breakouts.index: the dates that passed the filter
    k,                 \* position of the for loop in breakouts.index
    forward_return,    \* the loop's local of the last iteration
    results,           \* the rows appended so far
    avg_return,        \* the mean shown as Average Forward Return
    outcome            \* what the run reported

vars == <<market, request, start_date, end_date, volume_threshold,
          price_threshold, holding_period, pc, fetched, stock, breakouts, k,
          forward_return, results, avg_return, outcome>>

(***************************************************************************)
(* Bounds of the model.                                                    *)
(***************************************************************************)
LastDay == 45          \* the provider's most recent trading day (a Thursday)
NumFree == 3           \* how many of the latest bars vary freely

(***************************************************************************)
(* Program constants.                                                      *)
(***************************************************************************)
\* rolling(window=20); timedelta(days=40); the widgets' value, min_value and
\* max_value in the units above; the default start date as a day number
Window == 20
BufferDays == 40
DefaultStartDate == 42
DefaultVolumeThreshold == 200
MinVolumeThreshold == 10
DefaultPriceThreshold == 200
MinPriceThreshold == 100
MaxPriceThreshold == 10000
DefaultHoldingPeriod == 10
MinHoldingPeriod == 1

Today == LastDay + 1

(***************************************************************************)
(* Floats as exact rationals.                                              *)
(***************************************************************************)
RECURSIVE Gcd(_, _)
Gcd(a, b) == IF b = 0 THEN a ELSE Gcd(b, a % b)

Abs(x) == IF x < 0 THEN -x ELSE x

NaN == [k |-> "nan", n |-> 0, d |-> 1]
Inf == [k |-> "inf", n |-> 1, d |-> 1]

\* n / d for d > 0, in lowest terms
Q(n, d) ==
    LET g == Gcd(Abs(n), d)
    IN  [k |-> "num", n |-> n \div g, d |-> d \div g]

FDivZeroIsInf(n, x) ==
    IF x.k = "nan" THEN NaN
    ELSE IF x.n = 0 THEN Inf
    ELSE Q(n * x.d, x.n)

\* numpy's float division n / x of a non-negative integer n by a float x >= 0
FDiv(n, x) ==
    IF x.k = "nan" THEN NaN
    ELSE IF x.n = 0 THEN (IF n = 0 THEN NaN ELSE Inf)
    ELSE Q(n * x.d, x.n)

\* x + y of two rationals (used to state the full-precision mean)
FAdd(x, y) == Q(x.n * y.d + y.n * x.d, x.d * y.d)

GtOrEqual(x, tn, td) ==
    \/ x.k = "inf"
    \/ x.k = "num" /\ x.n * td >= tn * x.d

\* x > tn / td as numpy compares: False whenever x is NaN
Gt(x, tn, td) ==
    \/ x.k = "inf"
    \/ x.k = "num" /\ x.n * td > tn * x.d

\* n / d rounded to the nearest integer, ties to even (round, format)
RoundHalfEven(n, d) ==
    LET q == n \div d
        r == n % d
    IN  IF 2 * r < d THEN q
        ELSE IF 2 * r > d THEN q + 1
        ELSE IF q % 2 = 0 THEN q ELSE q + 1

\* round(price, 2): a price in mills to cents
Round2(mills) == RoundHalfEven(mills, 10)

\* round(x, 2) of a ratio: hundredths
Round2Ratio(x) == RoundHalfEven(x.n * 100, x.d)

\* f"{x:.1%}": the tenths of a percent the string shows
FormatPct1(x) == RoundHalfEven(x.n * 1000, x.d)

(***************************************************************************)
(* The provider.                                                           *)
(***************************************************************************)
IsTradingDay(d) == d % 7 < 5

RECURSIVE DaysSeq(_, _)
DaysSeq(lo, hi) ==
    IF lo > hi THEN <<>>
    ELSE (IF IsTradingDay(lo) THEN <<lo>> ELSE <<>>) \o DaysSeq(lo + 1, hi)

\* the bars a free day may hold
Kinds ==
    { [volume |-> 900,  close |-> 1000],
      [volume |-> 1900, close |-> 1025],
      [volume |-> 5000, close |-> 1020],
      [volume |-> 0,    close |-> 1025],
      [volume |-> 5000, close |-> 1050],
      [volume |-> 5000, close |-> 1071] }

\* the history of a ticker listed on day `listing`, with a flat baseline
\* and the latest NumFree bars given by ks
Market(listing, base, ks) ==
    LET days == DaysSeq(listing, LastDay)
        n    == Len(days)
    IN  [i \in 1..n |->
            IF i > n - NumFree
            THEN [date |-> days[i], close |-> ks[i - (n - NumFree)].close,
                  volume |-> ks[i - (n - NumFree)].volume]
            ELSE [date |-> days[i], close |-> 1000, volume |-> base]]

\* <<first trading day, baseline volume>>; the last one has no bar at all
Listings == { <<0, 900>>, <<0, 0>>, <<LastDay - 15, 900>>, <<LastDay + 1, 900>> }

Markets ==
    { Market(lb[1], lb[2], ks) : lb \in Listings, ks \in [1..NumFree -> Kinds] }

\* the histories the form is exercised on: one kind of bar on every free day
FormMarkets ==
    { Market(0, 900, [j \in 1..NumFree |-> kd]) : kd \in Kinds }

\* yf.download(ticker, start=s, end=e): the end is exclusive
YfDownload(m, s, e) == SelectSeq(m, LAMBDA b : s <= b.date /\ b.date < e)

(***************************************************************************)
(* The form.                                                               *)
(***************************************************************************)
NumberInputNoMin(current, typed, lo) == typed

\* st.number_input(min_value=lo): a typed value below lo is not committed
NumberInputMin(current, typed, lo) ==
    IF typed < lo THEN current ELSE typed

\* st.number_input(min_value=lo, max_value=hi)
NumberInputMinMax(current, typed, lo, hi) ==
    IF typed < lo \/ typed > hi THEN current ELSE typed

EngineRequests ==
    [start : {LastDay - 3, LastDay - 1}, end : {LastDay - 3, LastDay, LastDay + 1},
     vt : {200}, pt : {200}, hp : {1, 2, 10}]
    \cup
    [start : {LastDay - 1}, end : {LastDay + 1},
     vt : {10, 300}, pt : {100, 10000}, hp : {2}]

FormRequests ==
    [start : {LastDay - 3, LastDay - 1}, end : {LastDay - 3, LastDay},
     vt : {0, 5, 10, 300}, pt : {0, 50, 100, 20000}, hp : {0, 1}]

(***************************************************************************)
(* The columns of analyze_breakouts.                                       *)
(***************************************************************************)
\* stock['Close'].pct_change()
Daily_Return(s, i) ==
    IF i = 1 THEN NaN
    ELSE Q(s[i].close - s[i - 1].close, s[i - 1].close)

RECURSIVE SumVolume(_, _, _)
SumVolume(s, lo, hi) ==
    IF lo > hi THEN 0 ELSE s[hi].volume + SumVolume(s, lo, hi - 1)

\* stock['Volume'].rolling(window=20).mean()
MA20_Volume(s, i) ==
    IF i < Window THEN NaN
    ELSE Q(SumVolume(s, i - Window + 1, i), Window)

\* stock['Volume'].div(stock['MA20_Volume'])
Volume_Ratio(s, i) == FDiv(s[i].volume, MA20_Volume(s, i))

\* the boolean mask of the filter
Mask(s, i, start, vt, pt) ==
    /\ s[i].date >= start
    /\ Gt(Volume_Ratio(s, i), vt, 100)
    /\ Gt(Daily_Return(s, i), pt, 10000)

RECURSIVE FilterDates(_, _, _, _, _)
FilterDates(s, i, start, vt, pt) ==
    IF i > Len(s) THEN <<>>
    ELSE (IF Mask(s, i, start, vt, pt) THEN <<s[i].date>> ELSE <<>>)
         \o FilterDates(s, i + 1, start, vt, pt)

\* stock.index.get_loc(date)
GetLoc(s, date) == CHOOSE i \in 1..Len(s) : s[i].date = date

FutureIdxNoClamp(s, i, hp) == i + hp

FutureIdxOffByOne(s, i, hp) == IF i + hp - 1 < Len(s) THEN i + hp - 1 ELSE Len(s)

\* min(get_loc(date) + holding_period, len(stock.index) - 1), 1-based
FutureIdx(s, i, hp) == IF i + hp < Len(s) THEN i + hp ELSE Len(s)

ForwardReturn(entry_price, exit_price) ==
    Q(exit_price - entry_price, entry_price)

Row(s, i, fi, fr) ==
    [Entry_Date     |-> s[i].date,
     Entry_Price    |-> Round2(s[i].close),
     Exit_Date      |-> s[fi].date,
     Exit_Price     |-> Round2(s[fi].close),
     Volume         |-> s[i].volume,
     Volume_Ratio   |-> Round2Ratio(Volume_Ratio(s, i)),
     Daily_Return   |-> FormatPct1(Daily_Return(s, i)),
     Forward_Return |-> FormatPct1(fr)]

RECURSIVE SumForward(_, _)
SumForward(rows, j) ==
    IF j = 0 THEN 0 ELSE rows[j].Forward_Return + SumForward(rows, j - 1)

\* df['Forward_Return'].str.rstrip('%').astype(float).mean(), in percent
AvgReturn(rows) == Q(SumForward(rows, Len(rows)), 10 * Len(rows))

(***************************************************************************)
(* The run.                                                                *)
(***************************************************************************)
Init ==
    /\ market \in Markets
    /\ request = [start |-> DefaultStartDate, end |-> Today,
                  vt |-> DefaultVolumeThreshold, pt |-> DefaultPriceThreshold,
                  hp |-> DefaultHoldingPeriod]
    /\ start_date = DefaultStartDate
    /\ end_date = Today
    /\ volume_threshold = DefaultVolumeThreshold
    /\ price_threshold = DefaultPriceThreshold
    /\ holding_period = DefaultHoldingPeriod
    /\ pc = "form"
    /\ fetched = FALSE
    /\ stock = <<>>
    /\ breakouts = <<>>
    /\ k = 1
    /\ forward_return = NaN
    /\ results = <<>>
    /\ avg_return = NaN
    /\ outcome = "none"

\* the user fills the form
EnterInputs(r) ==
    /\ pc = "form"
    /\ request' = r
    /\ start_date' = r.start
    /\ end_date' = r.end
    /\ volume_threshold' = NumberInputMin(volume_threshold, r.vt, MinVolumeThreshold)
    /\ price_threshold' =
         NumberInputMinMax(price_threshold, r.pt, MinPriceThreshold, MaxPriceThreshold)
    /\ holding_period' = NumberInputMin(holding_period, r.hp, MinHoldingPeriod)
    /\ pc' = "button"
    /\ UNCHANGED <<market, fetched, stock, breakouts, k, forward_return, results,
                   avg_return, outcome>>

\* the Run Analysis button
RunAnalysis ==
    /\ pc = "button"
    /\ IF start_date >= end_date
       THEN /\ outcome' = "StartNotBeforeEnd"
            /\ pc' = "done"
       ELSE /\ outcome' = outcome
            /\ pc' = "download"
    /\ UNCHANGED <<market, request, start_date, end_date, volume_threshold,
                   price_threshold, holding_period, fetched, stock, breakouts, k,
                   forward_return, results, avg_return>>

Download ==
    /\ pc = "download"
    /\ stock' = YfDownload(market, start_date - BufferDays, end_date)
    /\ fetched' = TRUE
    /\ pc' = "filter"
    /\ UNCHANGED <<market, request, start_date, end_date, volume_threshold,
                   price_threshold, holding_period, breakouts, k, forward_return,
                   results, avg_return, outcome>>

Filter ==
    /\ pc = "filter"
    /\ breakouts' = FilterDates(stock, 1, start_date, volume_threshold, price_threshold)
    /\ results' = <<>>
    /\ k' = 1
    /\ pc' = "loop"
    /\ UNCHANGED <<market, request, start_date, end_date, volume_threshold,
                   price_threshold, holding_period, fetched, stock, forward_return,
                   avg_return, outcome>>

LoopBody ==
    /\ pc = "loop"
    /\ k <= Len(breakouts)
    /\ LET i  == GetLoc(stock, breakouts[k])
           fi == FutureIdx(stock, i, holding_period)
       IN  IF fi > Len(stock)
           THEN /\ outcome' = "IndexError"
                /\ pc' = "done"
                /\ UNCHANGED <<forward_return, results, k>>
           ELSE LET fr == ForwardReturn(stock[i].close, stock[fi].close)
                IN  /\ forward_return' = fr
                    /\ results' = Append(results, Row(stock, i, fi, fr))
                    /\ k' = k + 1
                    /\ UNCHANGED <<outcome, pc>>
    /\ UNCHANGED <<market, request, start_date, end_date, volume_threshold,
                   price_threshold, holding_period, fetched, stock, breakouts,
                   avg_return>>

ReportAlwaysAggregates ==
    /\ pc = "loop"
    /\ k > Len(breakouts)
    /\ outcome' = "Results"
    /\ avg_return' = IF results = <<>> THEN NaN ELSE AvgReturn(results)
    /\ pc' = "done"
    /\ UNCHANGED <<market, request, start_date, end_date, volume_threshold,
                   price_threshold, holding_period, fetched, stock, breakouts, k,
                   forward_return, results>>

Report ==
    /\ pc = "loop"
    /\ k > Len(breakouts)
    /\ IF results = <<>>
       THEN /\ outcome' = "NoSignals"
            /\ avg_return' = avg_return
       ELSE /\ outcome' = "Results"
            /\ avg_return' = AvgReturn(results)
    /\ pc' = "done"
    /\ UNCHANGED <<market, request, start_date, end_date, volume_threshold,
                   price_threshold, holding_period, fetched, stock, breakouts, k,
                   forward_return, results>>

Next ==
    \/ \E r \in EngineRequests : EnterInputs(r)
    \/ RunAnalysis
    \/ Download
    \/ Filter
    \/ LoopBody
    \/ Report

Spec == Init /\ [][Next]_vars

\* the same run, on a few histories, with every value the form can be given
InitForm == Init /\ market \in FormMarkets

NextForm ==
    \/ \E r \in FormRequests : EnterInputs(r)
    \/ RunAnalysis
    \/ Download
    \/ Filter
    \/ LoopBody
    \/ Report

SpecForm == InitForm /\ [][NextForm]_vars

(***************************************************************************)
(* What the specification says, stated from the bars themselves.           *)
(***************************************************************************)
Last(s) == s[Len(s)]

Dates(rows) == { rows[j].Entry_Date : j \in 1..Len(rows) }

\* the sum of the 20 volumes ending at bar i
WindowSum(s, i) == SumVolume(s, i - Window + 1, i)

\* volume / (20-bar mean) > vt / 100, the baseline being defined and not zero
RatioAbove(s, i, vt) ==
    /\ i >= Window
    /\ WindowSum(s, i) > 0
    /\ s[i].volume * Window * 100 > vt * WindowSum(s, i)

\* (close - previous close) / previous close > pt / 10000
ReturnAbove(s, i, pt) ==
    /\ i >= 2
    /\ (s[i].close - s[i - 1].close) * 10000 > pt * s[i - 1].close

Qualifying(s, start, end, vt, pt) ==
    { i \in 1..Len(s) : /\ start <= s[i].date
                        /\ s[i].date <= end
                        /\ RatioAbove(s, i, vt)
                        /\ ReturnAbove(s, i, pt) }

Finished == pc = "done" /\ fetched

\* C1: every emitted event is dated within [start_date, end_date] and its
\* bar has volume_ratio strictly above volume_threshold and daily_return
\* strictly above price_threshold; a bar exactly at a threshold is not emitted.
C1_EventsInRangeAndStrict ==
    \A j \in 1..Len(results) :
        LET i == GetLoc(stock, results[j].Entry_Date)
        IN  /\ start_date <= results[j].Entry_Date
            /\ results[j].Entry_Date <= end_date
            /\ RatioAbove(stock, i, volume_threshold)
            /\ ReturnAbove(stock, i, price_threshold)

\* an in-range bar exactly at the volume threshold, another exactly at the
\* price threshold, neither emitted, beside an emitted event
C1_Witness ==
    /\ Finished
    /\ outcome = "Results"
    /\ \E i \in Window..Len(stock) :
          /\ stock[i].date >= start_date
          /\ stock[i].volume * Window * 100 = volume_threshold * WindowSum(stock, i)
          /\ ReturnAbove(stock, i, price_threshold)
          /\ stock[i].date \notin Dates(results)
    /\ \E i \in Window..Len(stock) :
          /\ stock[i].date >= start_date
          /\ RatioAbove(stock, i, volume_threshold)
          /\ (stock[i].close - stock[i - 1].close) * 10000
                = price_threshold * stock[i - 1].close
          /\ stock[i].date \notin Dates(results)

\* C2: the exit bar of the event entered at index i of the fetched series is
\* the bar at min(i + holding_period, last index), forward_return is
\* (exit close - entry close) / entry close, no index is out of range, and
\* every bar that passed the filter is emitted, clamped or not.
C2_ExitBarClampedForwardReturn ==
    /\ outcome # "IndexError"
    /\ pc = "done" /\ fetched => Len(results) = Len(breakouts)
    /\ \A j \in 1..Len(results) :
          LET i == GetLoc(stock, results[j].Entry_Date)
              x == IF i + holding_period <= Len(stock)
                   THEN i + holding_period ELSE Len(stock)
              exact == FormatPct1(Q(stock[x].close - stock[i].close, stock[i].close))
          IN  /\ results[j].Entry_Date = breakouts[j]
              /\ results[j].Exit_Date = stock[x].date
              /\ results[j].Exit_Price = Round2(stock[x].close)
              /\ results[j].Forward_Return = exact
              /\ j = Len(results) =>
                    /\ forward_return.k = "num"
                    /\ forward_return.n * stock[i].close
                         = (stock[x].close - stock[i].close) * forward_return.d

\* an event whose holding period runs past the last fetched bar, emitted with
\* the last bar as exit and a non-zero forward return
C2_Witness ==
    /\ Finished
    /\ \E j \in 1..Len(results) :
          LET i == GetLoc(stock, results[j].Entry_Date)
          IN  /\ i + holding_period > Len(stock)
              /\ i < Len(stock)
              /\ results[j].Exit_Date = Last(stock).date
              /\ results[j].Forward_Return # 0

\* the domain the claim gives a request
ClaimValid(r) ==
    /\ r.start < r.end
    /\ r.vt > 0
    /\ r.pt > 0 /\ r.pt <= 10000
    /\ r.hp >= 1

C4_EmptyIsDataUnavailable ==
    (Finished /\ stock = <<>>) =>
        /\ outcome = "DataUnavailable"
        /\ outcome # "NoSignals"

\* C5: with no qualifying bar the run ends in NoSignals and never computes
\* the mean; with at least one it ends with the full event list, count equal
\* to the number of qualifying bars, and never in NoSignals.
C5_NoSignalsIffNoneQualify ==
    Finished =>
        LET nq == Cardinality(Qualifying(stock, start_date, end_date,
                                         volume_threshold, price_threshold))
        IN  /\ nq = 0 => /\ outcome = "NoSignals"
                         /\ results = <<>>
                         /\ avg_return = NaN
            /\ nq > 0 => /\ outcome = "Results"
                         /\ Len(results) = nq
                         /\ avg_return.k = "num"

\* constant volume and constant close over a full series: NoSignals
C5_Witness ==
    /\ Finished
    /\ Len(stock) > Window
    /\ \A i \in 1..Len(stock) : stock[i].volume = 900 /\ stock[i].close = 1000
    /\ outcome = "NoSignals"
    /\ avg_return = NaN

RECURSIVE ExactSum(_, _, _)
\* the sum of the first j events' full-precision forward returns
ExactSum(rows, s, j) ==
    IF j = 0 THEN Q(0, 1)
    ELSE LET i == GetLoc(s, rows[j].Entry_Date)
             x == GetLoc(s, rows[j].Exit_Date)
         IN  FAdd(Q(s[x].close - s[i].close, s[i].close), ExactSum(rows, s, j - 1))

\* C6: the reported mean (in percent) is the mean of the full-precision
\* forward returns.
C6_MeanOfFullPrecision ==
    (Finished /\ outcome = "Results") =>
        LET sum == ExactSum(results, stock, Len(results))
        IN  avg_return = Q(sum.n * 100, sum.d * Len(results))

\* the series the provider holds for [start_date - 40 days, end_date]
Calendar == SelectSeq(market, LAMBDA b : /\ start_date - BufferDays <= b.date
                                         /\ b.date <= end_date)

\* C7: every bar of the provider's calendar dated within
\* [start_date, end_date], end_date included, that is above both thresholds
\* yields exactly one event, and the events are in ascending date order.
C7_EveryQualifyingBarEmitted ==
    Finished =>
        /\ \A i \in Qualifying(Calendar, start_date, end_date,
                               volume_threshold, price_threshold) :
              Cardinality({ j \in 1..Len(results) :
                              results[j].Entry_Date = Calendar[i].date }) = 1
        /\ \A j \in 1..Len(results) - 1 :
              results[j].Entry_Date < results[j + 1].Entry_Date

\* C8: a run that produced a result gave every bar dated on or after
\* start_date a defined 20-bar baseline; otherwise it ended in DataUnavailable.
C8_BaselineDefinedOrAbort ==
    Finished =>
        \/ outcome = "DataUnavailable"
        \/ \A i \in 1..Len(stock) : stock[i].date >= start_date => i >= Window

\* C9: a bar whose 20-bar window holds only zero volumes is never emitted,
\* the run does not end in an error, and every other qualifying bar is
\* still emitted.
C9_ZeroBaselineSkipped ==
    /\ \A i \in Window..Len(stock) :
          WindowSum(stock, i) = 0 =>
              /\ Volume_Ratio(stock, i) = NaN
              /\ pc \in {"loop", "done"} =>
                    /\ \A j \in 1..Len(breakouts) : breakouts[j] # stock[i].date
                    /\ stock[i].date \notin Dates(results)
    /\ Finished =>
          /\ outcome \in {"NoSignals", "Results"}
          /\ \A i \in Qualifying(stock, start_date, end_date,
                                 volume_threshold, price_threshold) :
                stock[i].date \in Dates(results)

\* an in-range bar with an all-zero window and a daily return above the
\* threshold, skipped, and a later bar emitted
C9_Witness ==
    /\ Finished
    /\ outcome = "Results"
    /\ \E i \in Window..Len(stock) :
          /\ WindowSum(stock, i) = 0
          /\ stock[i].date >= start_date
          /\ ReturnAbove(stock, i, price_threshold)
          /\ \E j \in 1..Len(results) : results[j].Entry_Date > stock[i].date

RECURSIVE SumTenths(_, _)
SumTenths(rows, j) ==
    IF j = 0 THEN 0 ELSE rows[j].Forward_Return + SumTenths(rows, j - 1)

\* C10: an event's exit bar is never before its entry bar nor after the last
\* fetched bar; exit_date = entry_date exactly when the entry bar is the last
\* fetched bar, and then forward_return is 0 and counts in the number of
\* events and in the mean.
C10_ExitNeverBeforeEntry ==
    /\ \A j \in 1..Len(results) :
          /\ results[j].Entry_Date <= results[j].Exit_Date
          /\ results[j].Exit_Date <= Last(stock).date
          /\ results[j].Exit_Date = results[j].Entry_Date
                <=> results[j].Entry_Date = Last(stock).date
          /\ results[j].Entry_Date = Last(stock).date =>
                /\ results[j].Forward_Return = 0
                /\ results[j].Exit_Price = results[j].Entry_Price
    /\ (Finished /\ outcome = "Results") =>
          /\ avg_return.k = "num"
          /\ avg_return.n * 10 * Len(results)
                = SumTenths(results, Len(results)) * avg_return.d

\* the last fetched bar is an event: exit = entry, forward return 0, and the
\* mean over two events is half the other event's forward return
C10_Witness ==
    /\ Finished
    /\ outcome = "Results"
    /\ Len(results) = 2
    /\ results[2].Entry_Date = Last(stock).date
    /\ results[2].Exit_Date = results[2].Entry_Date
    /\ results[2].Forward_Return = 0
    /\ results[1].Forward_Return # 0
    /\ avg_return = Q(results[1].Forward_Return, 20)

====
